---- MODULE Spec2Model ----
(***************************************************************************)
(* RFID video kiosk: the controller RFIDVideoApp (src/main.py), the serial *)
(* channel LinuxSerialPort and the playback engine LinuxVLCMediaEngine     *)
(* (src/abstract/product/concrete_products_linux.py), driven by the Tk     *)
(* event loop.  One Tk callback runs to completion at a time, so every     *)
(* callback is one action.                                                 *)
(*                                                                         *)
(* Failure model.  The operations that can fail are the ones on the serial *)
(* device (serial.Serial(...), in_waiting / readline) and the VLC media    *)
(* operations (media_new, set_media, play, stop, get_state,                *)
(* media_player_new, set_xwindow).  Tk geometry and timer calls on the     *)
(* live window (place, place_forget, after, after_cancel with a job id) do *)
(* not fail; after_cancel("") raises ValueError.  A call on a player       *)
(* handle that was released is undefined in libvlc: it has any of the      *)
(* outcomes the same call has on a live handle.                            *)
(***************************************************************************)
EXTENDS Integers, Sequences, FiniteSets, TLC

\* ---------------------------------------------------------------- constants
POLL_MS == 200
WATCH_MS == 10000
max_backoff == 16
min_backoff == 1
\* the "no job" value "" of __run_poll_serial / __run_reconnect; Tk job ids are 1, 2, ...
NoJob == 0

\* ------------------------------------------------------------------- bounds
\* raw lines waiting in the device buffer when a poll reads it
MaxBuf == 2
\* Python integers do not overflow; the model stops counting at this value
MaxErrorCount == 1

\* --------------------------------------------------------------- vocabulary
None == "None"
REMOVED == "removed"
\* keys of the identifier map returned by load_config
uid_map == {"U1", "U2"}
\* what the reader can send: the sentinel, known identifiers, an unknown token
Tokens == uid_map \cup {REMOVED, "ZZ"}
\* a line as readline() returns it: text (empty for a blank line) and line end
Raw(t) == [text |-> t, eol |-> "\r\n"]
\* what the device buffer can hold when receive_datas drains it: the reader's
\* messages, and for a client that calls the channel directly blank lines too
Buffers == UNION {[1..n -> {Raw(t) : t \in Tokens}] : n \in 0..MaxBuf}
RawBuffers == UNION {[1..n -> {Raw(t) : t \in Tokens \cup {""}}] : n \in 0..MaxBuf}

NotRun == "-"
PlayFaults == {"none", "get_media", "set_media", "play"}
StopFaults == {"none", "stop", "set_media"}
\* __watch_player: the unguarded calls of lines 302, 311, 312 and the guarded
\* stop() / release() of lines 306-307
WatchFaults == {"none", "get_state", "media_player_new", "attach"}
ReleaseFaults == {"none", "stop"}

VARIABLES
    phase,            \* "start": before __main__ runs; "loop": inside mainloop();
                      \* "exited": the process has ended
    boot,             \* the start of the process: entry point, platform, config.yaml,
                      \* video files, identifier map loaded, exit code
    serial,           \* LinuxSerialPort: [ser, backoff_time, error_count]
    media,            \* LinuxVLCMediaEngine: [current_uid, media_cache, player, surface]
    last_cmd,         \* RFIDVideoApp.__last_cmd
    run_poll_serial,  \* RFIDVideoApp.__run_poll_serial
    run_reconnect,    \* RFIDVideoApp.__run_reconnect
    pending,          \* callbacks scheduled with root.after: {[id, fn, ms]}
    ev,               \* what the last step did (observation only)
    last_ret          \* last get_time_polling result since the last successful open, 0 if none

vars == <<phase, boot, serial, media, last_cmd, run_poll_serial, run_reconnect,
          pending, ev, last_ret>>

Min(a, b) == IF a <= b THEN a ELSE b
Last(s) == s[Len(s)]
LastOrNone(s) == IF s = <<>> THEN None ELSE Last(s)

\* ------------------------------------------------------------ serial channel
is_opened(s) == s.ser # None

\* open() without the reset of line 85
open_keeps_backoff(s, ok) ==
    IF ok THEN [s EXCEPT !.ser = "Serial"] ELSE [s EXCEPT !.ser = None]

\* open() that gives up on a failure without lines 76-77 and 88: the handle
\* is left as it was
open_failure_keeps_handle(s, ok) ==
    IF ok THEN [s EXCEPT !.ser = "Serial", !.backoff_time = min_backoff] ELSE s

open(s, ok) ==
    IF ok THEN [s EXCEPT !.ser = "Serial", !.backoff_time = min_backoff]
          ELSE [s EXCEPT !.ser = None]

\* close() that also puts the delay back to the minimum
close_resets_backoff(s) ==
    IF is_opened(s) THEN [s EXCEPT !.ser = None, !.backoff_time = min_backoff] ELSE s

close(s) == IF is_opened(s) THEN [s EXCEPT !.ser = None] ELSE s

\* get_time_polling without the cap of line 115
get_time_polling_uncapped(s) ==
    [s EXCEPT !.error_count = IF @ < MaxErrorCount THEN @ + 1 ELSE @,
              !.backoff_time = @ * 2]

\* get_time_polling starting over at the minimum once the cap is passed
get_time_polling_wraps(s) ==
    [s EXCEPT !.error_count = IF @ < MaxErrorCount THEN @ + 1 ELSE @,
              !.backoff_time = IF @ * 2 > max_backoff THEN min_backoff ELSE @ * 2]

\* get_time_polling adding the minimum instead of doubling
get_time_polling_adds(s) ==
    [s EXCEPT !.error_count = IF @ < MaxErrorCount THEN @ + 1 ELSE @,
              !.backoff_time = Min(@ + min_backoff, max_backoff)]

\* the value returned is the new backoff_time
get_time_polling(s) ==
    [s EXCEPT !.error_count = IF @ < MaxErrorCount THEN @ + 1 ELSE @,
              !.backoff_time = Min(@ * 2, max_backoff)]

\* readline().decode("utf-8", "ignore").strip()
strip(raw) == raw.text

\* the raw lines of buf are read in order; then either in_waiting is 0 (err = FALSE)
\* or in_waiting / readline raises (err = TRUE)
\* receive_datas returning [] from the except block
receive_datas_loses_lines(s, buf, err) ==
    LET read == [i \in 1..Len(buf) |-> strip(buf[i])]
    IN  [serial |-> IF err THEN close(s) ELSE s,
         lines  |-> IF err THEN <<>> ELSE SelectSeq(read, LAMBDA x : x # "")]

receive_datas(s, buf, err) ==
    LET read == [i \in 1..Len(buf) |-> strip(buf[i])]
    IN  [serial |-> IF err THEN close(s) ELSE s,
         lines  |-> SelectSeq(read, LAMBDA x : x # "")]

\* ---------------------------------------------------------------- scheduler
JobIds(p) == {c.id : c \in p}

\* Tk never hands out a job id twice; the model reuses ids no one holds
NewJob(p, held) ==
    LET used == JobIds(p) \cup held
    IN  CHOOSE i \in 1..(Cardinality(used) + 1) : i \notin used

run_loop_after_time(p, h, ms, fn) == p \cup {[id |-> h, fn |-> fn, ms |-> ms]}

cancel_run_loop_after_time(p, job) == {c \in p : c.id # job}

Jobs(fn) == {c \in pending : c.fn = fn}

\* ---------------------------------------------------------- playback engine
NewPlayer == [state |-> "NothingSpecial", media |-> None, on_end |-> FALSE]

\* __get_media keeping only the media made last
get_media_single_entry(m, uid, fail) ==
    IF uid \in m.media_cache \/ fail THEN m.media_cache ELSE {uid}

\* __get_media: the cache after the call (fail: media_new gave no media for a new uid)
get_media(m, uid, fail) ==
    IF uid \in m.media_cache \/ fail THEN m.media_cache ELSE m.media_cache \cup {uid}

\* show_home without line 256: the active identifier is kept
show_home_keeps_uid(m, sf) ==
    LET m1 == IF m.current_uid # ""
              THEN [m EXCEPT
                      !.player = CASE sf = "stop"      -> @
                                   [] sf = "set_media" -> [@ EXCEPT !.state = "Stopped"]
                                   [] OTHER            -> [@ EXCEPT !.state = "Stopped",
                                                                    !.media = None]]
              ELSE m
    IN  [m1 EXCEPT !.surface = "home"]

\* show_home: stop() and set_media(None) are tried only when an identifier is
\* active (sf: the one that failed); the identifier is cleared and the home
\* image shown in every case
show_home(m, sf) ==
    LET m1 == IF m.current_uid # ""
              THEN [m EXCEPT
                      !.player = CASE sf = "stop"      -> @
                                   [] sf = "set_media" -> [@ EXCEPT !.state = "Stopped"]
                                   [] OTHER            -> [@ EXCEPT !.state = "Stopped",
                                                                    !.media = None],
                      !.current_uid = ""]
              ELSE m
    IN  [m1 EXCEPT !.surface = "home"]

\* play_video without line 281: a failure is logged and nothing is undone
play_video_no_fallback(m, uid, pf, sf) ==
    IF uid = m.current_uid THEN m
    ELSE LET cached == [m EXCEPT !.media_cache = get_media(m, uid, pf = "get_media")]
         IN  CASE pf = "get_media" -> cached
               [] pf = "set_media" -> cached
               [] pf = "play"      -> [cached EXCEPT !.player.media = uid]
               [] OTHER            ->
                    [cached EXCEPT !.player = [@ EXCEPT !.media = uid, !.state = "Playing"],
                                   !.current_uid = uid,
                                   !.surface = "video"]

\* play_video without lines 274-275: the home image stays in front
play_video_keeps_home(m, uid, pf, sf) ==
    IF uid = m.current_uid THEN m
    ELSE LET cached == [m EXCEPT !.media_cache = get_media(m, uid, pf = "get_media")]
         IN  CASE pf = "get_media" -> show_home(cached, sf)
               [] pf = "set_media" -> show_home(cached, sf)
               [] pf = "play"      -> show_home([cached EXCEPT !.player.media = uid], sf)
               [] OTHER            ->
                    [cached EXCEPT !.player = [@ EXCEPT !.media = uid, !.state = "Playing"],
                                   !.current_uid = uid]

\* play_video without the test of line 264: the active identifier is started again
play_video_always_restarts(m, uid, pf, sf) ==
    LET cached == [m EXCEPT !.media_cache = get_media(m, uid, pf = "get_media")]
    IN  CASE pf = "get_media" -> show_home(cached, sf)
          [] pf = "set_media" -> show_home(cached, sf)
          [] pf = "play"      -> show_home([cached EXCEPT !.player.media = uid], sf)
          [] OTHER            ->
               [cached EXCEPT !.player = [@ EXCEPT !.media = uid, !.state = "Playing"],
                              !.current_uid = uid,
                              !.surface = "video"]

\* play_video: nothing when uid is the active identifier; else the media is taken
\* from the cache or made, set on the player and started, and the video canvas
\* shown; pf is the step that raised, after which show_home runs
play_video(m, uid, pf, sf) ==
    IF uid = m.current_uid THEN m
    ELSE LET cached == [m EXCEPT !.media_cache = get_media(m, uid, pf = "get_media")]
         IN  CASE pf = "get_media" -> show_home(cached, sf)
               [] pf = "set_media" -> show_home(cached, sf)
               [] pf = "play"      -> show_home([cached EXCEPT !.player.media = uid], sf)
               [] OTHER            ->
                    [cached EXCEPT !.player = [@ EXCEPT !.media = uid, !.state = "Playing"],
                                   !.current_uid = uid,
                                   !.surface = "video"]

\* __restart_video without the test of line 236: the player is started with the
\* media it holds when no identifier is active
restart_video_without_uid(m, pf) ==
    IF m.current_uid # ""
    THEN LET cached == [m EXCEPT !.media_cache = get_media(m, m.current_uid, pf = "get_media")]
         IN  CASE pf = "get_media" -> cached
               [] pf = "set_media" -> cached
               [] pf = "play"      -> [cached EXCEPT !.player.media = m.current_uid]
               [] OTHER            ->
                    [cached EXCEPT !.player = [@ EXCEPT !.media = m.current_uid,
                                                        !.state = "Playing"]]
    ELSE [m EXCEPT !.player.state = "Playing"]

\* __restart_video: failures are logged and nothing else is done
\* (self.__player is always a player object, so "and self.__player" is true)
restart_video(m, pf) ==
    IF m.current_uid # ""
    THEN LET cached == [m EXCEPT !.media_cache = get_media(m, m.current_uid, pf = "get_media")]
         IN  CASE pf = "get_media" -> cached
               [] pf = "set_media" -> cached
               [] pf = "play"      -> [cached EXCEPT !.player.media = m.current_uid]
               [] OTHER            ->
                    [cached EXCEPT !.player = [@ EXCEPT !.media = m.current_uid,
                                                        !.state = "Playing"]]
    ELSE m

\* __watch_player lines 302-313 on the engine: wf is the unguarded call that raised,
\* rel the failure inside the try block of lines 305-309.  The new player comes
\* without the MediaPlayerEndReached handler, which was attached to the first one.
watch_recover(m, wf, rel, pf) ==
    IF wf = "get_state" \/ m.player.state \notin {"Error", "Stopped"} THEN m
    ELSE IF wf = "media_player_new"
    THEN IF rel = "stop" THEN m ELSE [m EXCEPT !.player.state = "Released"]
    ELSE IF wf = "attach" THEN [m EXCEPT !.player = NewPlayer]
    ELSE restart_video([m EXCEPT !.player = NewPlayer], pf)

\* the failures __watch_player can meet
WatchFaultsOf(m) ==
    IF m.player.state \in {"Error", "Stopped"} THEN WatchFaults ELSE {"none", "get_state"}

ReleaseFaultsOf(m, wf) ==
    IF m.player.state \in {"Error", "Stopped"} /\ wf # "get_state"
    THEN ReleaseFaults ELSE {NotRun}

\* --------------------------------------------------------------- controller
\* __process_cmd with line 76 in the two playback branches only: "removed" is
\* acted on and not remembered
process_cmd_forgets_removed(lc, m, cmd, pf, sf) ==
    IF cmd = lc THEN [last_cmd |-> lc, media |-> m, warned |-> FALSE, dup |-> TRUE]
    ELSE [last_cmd |-> IF cmd = REMOVED THEN lc ELSE cmd,
          dup      |-> FALSE,
          media    |-> IF cmd = REMOVED THEN show_home(m, sf)
                       ELSE IF cmd \in uid_map THEN play_video(m, cmd, pf, sf)
                       ELSE m,
          warned   |-> cmd # REMOVED /\ cmd \notin uid_map]

\* __process_cmd without lines 66-67: a repeated command is handled again
process_cmd_no_dedup(lc, m, cmd, pf, sf) ==
    [last_cmd |-> cmd,
     dup      |-> FALSE,
     media    |-> IF cmd = REMOVED THEN show_home(m, sf)
                  ELSE IF cmd \in uid_map THEN play_video(m, cmd, pf, sf)
                  ELSE m,
     warned   |-> cmd # REMOVED /\ cmd \notin uid_map]

\* __process_cmd sending an unknown command to show_home instead of only logging it
process_cmd_unknown_goes_home(lc, m, cmd, pf, sf) ==
    IF cmd = lc THEN [last_cmd |-> lc, media |-> m, warned |-> FALSE, dup |-> TRUE]
    ELSE [last_cmd |-> cmd,
          dup      |-> FALSE,
          media    |-> IF cmd \in uid_map THEN play_video(m, cmd, pf, sf)
                       ELSE show_home(m, sf),
          warned   |-> cmd # REMOVED /\ cmd \notin uid_map]

\* __process_cmd: the new __last_cmd, the engine afterwards, whether a warning was
\* logged, whether the command was dropped in line 67 as a repetition
process_cmd(lc, m, cmd, pf, sf) ==
    IF cmd = lc THEN [last_cmd |-> lc, media |-> m, warned |-> FALSE, dup |-> TRUE]
    ELSE [last_cmd |-> cmd,
          dup      |-> FALSE,
          media    |-> IF cmd = REMOVED THEN show_home(m, sf)
                       ELSE IF cmd \in uid_map THEN play_video(m, cmd, pf, sf)
                       ELSE m,
          warned   |-> cmd # REMOVED /\ cmd \notin uid_map]

\* A media operation can fail only where it is called.  The failures play_video can
\* meet when cmd is dispatched (none when cmd is None) ...
PlayFaultsOf(lc, m, cmd) ==
    IF cmd # lc /\ cmd \in uid_map /\ cmd # m.current_uid
    THEN IF cmd \in m.media_cache THEN PlayFaults \ {"get_media"} ELSE PlayFaults
    ELSE {NotRun}

\* ... and the failures show_home can meet then, play_video having met pf
StopFaultsOf(lc, m, cmd, pf) ==
    IF m.current_uid # "" /\ ((cmd # lc /\ cmd = REMOVED) \/ pf \notin {"none", NotRun})
    THEN StopFaults
    ELSE {NotRun}

\* the failures __restart_video can meet
RestartFaultsOf(m) ==
    IF m.current_uid = "" THEN {NotRun}
    ELSE IF m.current_uid \in m.media_cache THEN PlayFaults \ {"get_media"} ELSE PlayFaults

\* __poll_serial with lines[0] in line 39: the oldest line of the batch is dispatched
dispatch_first_line(lc, m, lines, pf, sf) ==
    IF lines # <<>>
    THEN [cmd |-> Head(lines)] @@ process_cmd(lc, m, Head(lines), pf, sf)
    ELSE [cmd |-> None, last_cmd |-> lc, media |-> m, warned |-> FALSE, dup |-> FALSE]

\* __poll_serial lines 38-39: only the last line of a non-empty batch is dispatched
dispatch(lc, m, lines, pf, sf) ==
    IF lines # <<>>
    THEN [cmd |-> Last(lines)] @@ process_cmd(lc, m, Last(lines), pf, sf)
    ELSE [cmd |-> None, last_cmd |-> lc, media |-> m, warned |-> FALSE, dup |-> FALSE]

\* __poll_serial without line 48: the poll is cancelled and no reconnect scheduled
poll_schedule_no_handoff(c, fired, opened, delay) ==
    IF opened
    THEN LET h == NewJob(c.pending, {fired, c.run_poll_serial, c.run_reconnect})
         IN  [c EXCEPT !.pending = run_loop_after_time(@, h, POLL_MS, "poll_serial"),
                       !.run_poll_serial = h]
    ELSE IF c.run_poll_serial = NoJob
    THEN [c EXCEPT !.raised = TRUE]
    ELSE [c EXCEPT !.pending = cancel_run_loop_after_time(@, c.run_poll_serial),
                   !.run_poll_serial = NoJob]

\* __poll_serial with line 41 outside the if: the poll is rescheduled in both branches
poll_schedule_dedented(c, fired, opened, delay) ==
    LET c1 == IF opened THEN c
              ELSE IF c.run_poll_serial = NoJob THEN [c EXCEPT !.raised = TRUE]
              ELSE LET p1 == cancel_run_loop_after_time(c.pending, c.run_poll_serial)
                       h  == NewJob(p1, {fired, c.run_reconnect})
                   IN  [c EXCEPT !.pending = run_loop_after_time(p1, h, delay * 1000,
                                                                 "reconnect_serial"),
                                 !.run_poll_serial = NoJob,
                                 !.run_reconnect = h]
        h1 == NewJob(c1.pending, {fired, c1.run_poll_serial, c1.run_reconnect})
    IN  IF c1.raised THEN c1
        ELSE [c1 EXCEPT !.pending = run_loop_after_time(@, h1, POLL_MS, "poll_serial"),
                        !.run_poll_serial = h1]

\* __poll_serial lines 41-48 on c = [pending, run_poll_serial, run_reconnect, raised]:
\* fired is the id of the job running, opened what is_opened() returned in line 36,
\* delay what get_time_polling() returns in line 48
poll_schedule(c, fired, opened, delay) ==
    IF opened
    THEN LET h == NewJob(c.pending, {fired, c.run_poll_serial, c.run_reconnect})
         IN  [c EXCEPT !.pending = run_loop_after_time(@, h, POLL_MS, "poll_serial"),
                       !.run_poll_serial = h]
    ELSE IF c.run_poll_serial = NoJob
    THEN [c EXCEPT !.raised = TRUE]
    ELSE LET p1 == cancel_run_loop_after_time(c.pending, c.run_poll_serial)
             h  == NewJob(p1, {fired, c.run_reconnect})
         IN  [c EXCEPT !.pending = run_loop_after_time(p1, h, delay * 1000,
                                                       "reconnect_serial"),
                       !.run_poll_serial = NoJob,
                       !.run_reconnect = h]

\* __reconnect_serial with line 61 outside the else: the reconnect is scheduled
\* again after a successful open() too
reconnect_schedule_keeps_chain(c, fired, opened, delay) ==
    LET c1 == IF opened
              THEN IF c.run_reconnect = NoJob
                   THEN [c EXCEPT !.raised = TRUE]
                   ELSE LET p1 == cancel_run_loop_after_time(c.pending, c.run_reconnect)
                            h  == NewJob(p1, {fired, c.run_poll_serial})
                        IN  [c EXCEPT !.pending = run_loop_after_time(p1, h, POLL_MS,
                                                                      "poll_serial"),
                                      !.run_reconnect = NoJob,
                                      !.run_poll_serial = h]
              ELSE c
        h1 == NewJob(c1.pending, {fired, c1.run_poll_serial, c1.run_reconnect})
    IN  IF c1.raised THEN c1
        ELSE [c1 EXCEPT !.pending = run_loop_after_time(@, h1, delay * 1000,
                                                        "reconnect_serial"),
                        !.run_reconnect = h1]

\* __reconnect_serial without line 59: a successful open() ends the reconnect
\* chain and schedules no poll
reconnect_schedule_no_poll(c, fired, opened, delay) ==
    IF opened
    THEN IF c.run_reconnect = NoJob
         THEN [c EXCEPT !.raised = TRUE]
         ELSE [c EXCEPT !.pending = cancel_run_loop_after_time(@, c.run_reconnect),
                        !.run_reconnect = NoJob]
    ELSE LET h == NewJob(c.pending, {fired, c.run_poll_serial, c.run_reconnect})
         IN  [c EXCEPT !.pending = run_loop_after_time(@, h, delay * 1000,
                                                       "reconnect_serial"),
                       !.run_reconnect = h]

\* __reconnect_serial without line 61: a failed open() is not tried again
reconnect_schedule_gives_up(c, fired, opened, delay) ==
    IF opened
    THEN IF c.run_reconnect = NoJob
         THEN [c EXCEPT !.raised = TRUE]
         ELSE LET p1 == cancel_run_loop_after_time(c.pending, c.run_reconnect)
                  h  == NewJob(p1, {fired, c.run_poll_serial})
              IN  [c EXCEPT !.pending = run_loop_after_time(p1, h, POLL_MS, "poll_serial"),
                            !.run_reconnect = NoJob,
                            !.run_poll_serial = h]
    ELSE c

\* __reconnect_serial lines 53-61, opened being what is_opened() returned in line 53
reconnect_schedule(c, fired, opened, delay) ==
    IF opened
    THEN IF c.run_reconnect = NoJob
         THEN [c EXCEPT !.raised = TRUE]
         ELSE LET p1 == cancel_run_loop_after_time(c.pending, c.run_reconnect)
                  h  == NewJob(p1, {fired, c.run_poll_serial})
              IN  [c EXCEPT !.pending = run_loop_after_time(p1, h, POLL_MS, "poll_serial"),
                            !.run_reconnect = NoJob,
                            !.run_poll_serial = h]
    ELSE LET h == NewJob(c.pending, {fired, c.run_poll_serial, c.run_reconnect})
         IN  [c EXCEPT !.pending = run_loop_after_time(@, h, delay * 1000,
                                                       "reconnect_serial"),
                       !.run_reconnect = h]

\* the scheduler and the controller's handles once job has been taken off the loop
Fired(job) == [pending |-> pending \ {job}, run_poll_serial |-> run_poll_serial,
               run_reconnect |-> run_reconnect, raised |-> FALSE]

\* ev, what the last step did.  op: the step; raised: it ended with an exception;
\* err: receive_datas met an I/O error; last, skipped: the last line it returned and
\* whether it returned lines before that one; cmd: the argument of __process_cmd
\* (None: not called); dup: it returned in line 67; warned: the unknown-command
\* warning was logged; pf, sf: the media operation that failed in play_video /
\* __restart_video and in show_home ("none": the operations ran and none failed);
\* wf, rel: the call that raised in __watch_player and in its try block (rel
\* also: in the first try block of __safe_shutdown); steps: the steps
\* __safe_shutdown went through;
\* thread: the thread the step ran on, reads: the engine fields it read there
\* (kept for the VLC thread only); buf, lines: what a direct call of receive_datas
\* read and returned; had: the channel was connected before open(), close() or
\* receive_datas was called; recv: receive_datas was called;
\* opened: the result of open(), b0: backoff_time before it (0: not called);
\* ret: the value get_time_polling returned (0: not called)
NoEv == [op |-> "init", thread |-> "loop", reads |-> {}, raised |-> FALSE,
         err |-> FALSE, buf |-> <<>>, lines |-> <<>>, last |-> None,
         skipped |-> FALSE, cmd |-> None, dup |-> FALSE, warned |-> FALSE,
         pf |-> NotRun, sf |-> NotRun, wf |-> NotRun, rel |-> NotRun,
         steps |-> <<>>, had |-> FALSE, recv |-> FALSE, opened |-> NotRun, b0 |-> 0, ret |-> 0]

\* -------------------------------------------------------------------- start
\* src/main.py and src/main_backup.py can both be run
Entries == {"main.py", "main_backup.py"}
\* platform.system(): the platform with products in this repository, and one
\* choose_factory does not know
Platforms == {"Linux", "Darwin"}
\* config.yaml: not there, not a YAML mapping, or the keys of its uid_map table
Tables == {[file |-> f, keys |-> {}] : f \in {"missing", "malformed"}}
          \cup {[file |-> "ok", keys |-> k] : k \in SUBSET uid_map}
\* the identifiers whose video file exists
Files == SUBSET uid_map

\* LinuxConfig.load_config: the identifiers of the table whose file exists; an
\* empty result is logged and returned
load_config(table, files) ==
    [raised |-> table.file # "ok", uid_map |-> table.keys \cap files]

\* RFIDVideoPlayer.load_config of main_backup.py: an empty result raises RuntimeError
load_config_backup(table, files) ==
    [raised |-> table.file # "ok" \/ table.keys \cap files = {},
     uid_map |-> table.keys \cap files]

\* the process as the loop model starts it: main.py on Linux with every video
\* there.  loaded: load_config returned; exit: the exit code once phase is "exited"
Booted == [entry |-> "main.py", platform |-> "Linux",
           table |-> [file |-> "ok", keys |-> uid_map], files |-> uid_map,
           loaded |-> TRUE, uid_map |-> uid_map, exit |-> 0]

\* ---------------------------------------------------------------------- Init
\* after RFIDVideoApp.__init__ has scheduled the first poll: the constructor of
\* LinuxSerialPort tried open() once, the engine's constructor ran __watch_player
Init ==
    /\ phase = "loop"
    /\ boot = Booted
    /\ \E ok \in BOOLEAN :
         serial = open([ser |-> None, backoff_time |-> min_backoff, error_count |-> 0], ok)
    /\ media = [current_uid |-> "", media_cache |-> {},
                player |-> [NewPlayer EXCEPT !.on_end = TRUE], surface |-> "home"]
    /\ last_cmd = None
    /\ run_poll_serial = 2
    /\ run_reconnect = NoJob
    /\ pending = {[id |-> 1, fn |-> "watch_player", ms |-> WATCH_MS],
                  [id |-> 2, fn |-> "poll_serial", ms |-> POLL_MS]}
    /\ ev = NoEv
    /\ last_ret = 0

\* ------------------------------------------------------------------- actions
\* RFIDVideoApp.__poll_serial, fired by the loop as job; bufs: what the device
\* buffer can hold at that time
poll_serial(job, bufs) ==
    /\ phase = "loop"
    /\ job \in Jobs("poll_serial")
    /\ IF is_opened(serial)
       THEN \E buf \in bufs, err \in BOOLEAN :
            \E r \in {receive_datas(serial, buf, err)} :
            \E cmd \in {dispatch(last_cmd, media, r.lines, NotRun, NotRun).cmd} :
            \E pf \in PlayFaultsOf(last_cmd, media, cmd) :
            \E sf \in StopFaultsOf(last_cmd, media, cmd, pf) :
            \E d \in {dispatch(last_cmd, media, r.lines, pf, sf)} :
            \E c \in {poll_schedule(Fired(job), job.id, TRUE, 0)} :
                  /\ serial' = r.serial
                  /\ last_cmd' = d.last_cmd
                  /\ media' = d.media
                  /\ pending' = c.pending
                  /\ run_poll_serial' = c.run_poll_serial
                  /\ run_reconnect' = c.run_reconnect
                  /\ ev' = [NoEv EXCEPT !.op = "poll", !.err = err,
                                        !.recv = TRUE, !.had = is_opened(serial),
                                        !.last = LastOrNone(r.lines),
                                        !.skipped = Len(r.lines) > 1,
                                        !.cmd = d.cmd, !.dup = d.dup,
                                        !.warned = d.warned,
                                        !.pf = pf, !.sf = sf]
                  /\ UNCHANGED last_ret
       ELSE \E s1 \in {get_time_polling(serial)} :
            \E c \in {poll_schedule(Fired(job), job.id, FALSE, s1.backoff_time)} :
                /\ serial' = IF c.raised THEN serial ELSE s1
                /\ pending' = c.pending
                /\ run_poll_serial' = c.run_poll_serial
                /\ run_reconnect' = c.run_reconnect
                /\ ev' = [NoEv EXCEPT !.op = "poll", !.raised = c.raised,
                                      !.ret = IF c.raised THEN 0 ELSE s1.backoff_time]
                /\ last_ret' = IF c.raised THEN last_ret ELSE s1.backoff_time
                /\ UNCHANGED <<media, last_cmd>>
    /\ UNCHANGED <<phase, boot>>

\* RFIDVideoApp.__reconnect_serial, fired by the loop as job
reconnect_serial(job) ==
    /\ phase = "loop"
    /\ job \in Jobs("reconnect_serial")
    /\ \E ok \in BOOLEAN :
         \E s1 \in {open(serial, ok)} :
         \E opened \in {is_opened(s1)} :
         \E s2 \in {IF opened THEN s1 ELSE get_time_polling(s1)} :
         \E c \in {reconnect_schedule(Fired(job), job.id, opened, s2.backoff_time)} :
             /\ serial' = s2
             /\ pending' = c.pending
             /\ run_poll_serial' = c.run_poll_serial
             /\ run_reconnect' = c.run_reconnect
             /\ ev' = [NoEv EXCEPT !.op = "reconnect", !.raised = c.raised,
                                   !.opened = IF ok THEN "ok" ELSE "fail",
                                   !.had = is_opened(serial),
                                   !.b0 = serial.backoff_time,
                                   !.ret = IF opened THEN 0 ELSE s2.backoff_time]
             /\ last_ret' = IF ok THEN 0 ELSE s2.backoff_time
    /\ UNCHANGED <<phase, boot, media, last_cmd>>

\* the player reaches the end of its media (VLC thread): MediaPlayerEndReached
\* runs __on_video_end on the player it was attached to.  A restart queued with
\* after(0, ...) is due at once, and runs before the player has played a video to
\* its end again.
on_video_end ==
    /\ phase = "loop"
    /\ media.player.state = "Playing"
    /\ Jobs("restart_video") = {}
    /\ media' = [media EXCEPT !.player.state = "Ended"]
    /\ pending' = IF media.player.on_end /\ media.current_uid # ""
                  THEN run_loop_after_time(pending,
                                           NewJob(pending, {run_poll_serial, run_reconnect}),
                                           0, "restart_video")
                  ELSE pending
    \* line 231 reads __current_uid on the VLC thread (when the handler is attached)
    /\ ev' = [NoEv EXCEPT !.op = "end", !.thread = "vlc",
                          !.reads = IF media.player.on_end THEN {"current_uid"} ELSE {}]
    /\ UNCHANGED <<phase, boot, serial, last_cmd, run_poll_serial, run_reconnect, last_ret>>

\* the decoder faults while playing
PlayerFault ==
    /\ phase = "loop"
    /\ media.player.state = "Playing"
    /\ media' = [media EXCEPT !.player.state = "Error"]
    /\ ev' = [NoEv EXCEPT !.op = "fault"]
    /\ UNCHANGED <<phase, boot, serial, last_cmd, run_poll_serial, run_reconnect,
                   pending, last_ret>>

\* LinuxVLCMediaEngine.__restart_video as a loop callback
restart_video_job(job) ==
    /\ phase = "loop"
    /\ job \in Jobs("restart_video")
    /\ \E pf \in RestartFaultsOf(media) :
         /\ media' = restart_video(media, pf)
         /\ ev' = [NoEv EXCEPT !.op = "restart", !.pf = pf]
    /\ pending' = pending \ {job}
    /\ UNCHANGED <<phase, boot, serial, last_cmd, run_poll_serial, run_reconnect, last_ret>>

\* LinuxVLCMediaEngine.__watch_player, fired by the loop as job
watch_player(job) ==
    /\ phase = "loop"
    /\ job \in Jobs("watch_player")
    /\ \E wf \in WatchFaultsOf(media) :
       \E rel \in ReleaseFaultsOf(media, wf) :
       \E pf \in (IF wf = "none" /\ rel # NotRun THEN RestartFaultsOf(media) ELSE {NotRun}) :
         LET p0 == pending \ {job}
             \* the handle is discarded, so no one holds the id of the job that just ran
             h  == NewJob(p0, {run_poll_serial, run_reconnect})
         IN  \* line 315 is the last one: an exception before it leaves no watchdog
             /\ pending' = IF wf # "none" THEN p0
                            ELSE run_loop_after_time(p0, h, WATCH_MS, "watch_player")
             /\ media' = watch_recover(media, wf, rel, pf)
             /\ ev' = [NoEv EXCEPT !.op = "watch", !.raised = wf # "none",
                                   !.wf = wf, !.rel = rel, !.pf = pf]
    /\ UNCHANGED <<phase, boot, serial, last_cmd, run_poll_serial, run_reconnect, last_ret>>

\* __safe_shutdown with one try block around the three steps: a failure of
\* stop() skips the steps after it
safe_shutdown_one_try ==
    /\ phase = "loop"
    /\ \E rel \in ReleaseFaults :
         /\ media' = IF rel = "stop" THEN media
                      ELSE [media EXCEPT !.player.state = "Released"]
         /\ serial' = IF rel = "stop" THEN serial ELSE close(serial)
         /\ pending' = IF rel = "stop" THEN pending ELSE {}
         /\ ev' = [NoEv EXCEPT !.op = "shutdown", !.rel = rel,
                               !.had = is_opened(serial),
                               !.steps = IF rel = "stop" THEN <<"player">>
                                         ELSE <<"player", "serial", "destroy">>]
    /\ phase' = "exited"
    /\ boot' = [boot EXCEPT !.exit = 0]
    /\ UNCHANGED <<last_cmd, run_poll_serial, run_reconnect, last_ret>>

\* LinuxVLCMediaEngine.__safe_shutdown: Escape or window close.  Three try
\* blocks in a row: stop() and release() of the player (rel: stop() raised, and
\* release() is skipped), close() of the channel, destroy() of the window, which
\* takes the callbacks with it; then sys.exit(0)
safe_shutdown ==
    /\ phase = "loop"
    /\ \E rel \in ReleaseFaults :
         /\ media' = IF rel = "stop" THEN media
                      ELSE [media EXCEPT !.player.state = "Released"]
         /\ ev' = [NoEv EXCEPT !.op = "shutdown", !.rel = rel,
                               !.had = is_opened(serial),
                               !.steps = <<"player", "serial", "destroy">>]
    /\ serial' = close(serial)
    /\ pending' = {}
    /\ phase' = "exited"
    /\ boot' = [boot EXCEPT !.exit = 0]
    /\ UNCHANGED <<last_cmd, run_poll_serial, run_reconnect, last_ret>>

Next ==
    \/ \E job \in pending : poll_serial(job, Buffers)
    \/ \E job \in pending : reconnect_serial(job)
    \/ on_video_end
    \/ PlayerFault
    \/ \E job \in pending : restart_video_job(job)
    \/ \E job \in pending : watch_player(job)
    \/ safe_shutdown

Spec == Init /\ [][Next]_vars

\* The loop with a reader that sends at most one message between two polls, and
\* only "removed" or the identifier U1.  The Tk loop runs every callback that is
\* scheduled: that is the weak fairness of the four callbacks.
QuietBuffers == {<<>>, <<Raw("U1")>>, <<Raw(REMOVED)>>}

QuietNext ==
    \/ \E job \in pending : poll_serial(job, QuietBuffers)
    \/ \E job \in pending : reconnect_serial(job)
    \/ on_video_end
    \/ PlayerFault
    \/ \E job \in pending : restart_video_job(job)
    \/ \E job \in pending : watch_player(job)
    \/ safe_shutdown

FairSpec ==
    /\ Init /\ [][QuietNext]_vars
    /\ WF_vars(\E job \in pending : poll_serial(job, QuietBuffers))
    /\ WF_vars(\E job \in pending : reconnect_serial(job))
    /\ WF_vars(\E job \in pending : restart_video_job(job))
    /\ WF_vars(\E job \in pending : watch_player(job))

\* ------------------------------------------------------- the process start
\* python main.py: choose_factory, then RFIDVideoApp.__init__ up to mainloop().
\* sys.exit(1) for a platform without factory; an exception of load_config or of
\* a constructor (fail: Tk or VLC cannot be set up) ends in the except block of
\* line 92 and sys.exit(1).  The channel is constructed before the engine.
main ==
    /\ phase = "start" /\ boot.entry = "main.py"
    /\ \E ok, fail \in BOOLEAN :
       \E m \in {load_config(boot.table, boot.files)} :
       \E s1 \in {open(serial, ok)} :
         IF boot.platform # "Linux" \/ m.raised
         THEN /\ phase' = "exited"
              /\ boot' = [boot EXCEPT !.exit = 1]
              /\ ev' = [NoEv EXCEPT !.op = "main", !.raised = TRUE]
              /\ UNCHANGED <<serial, pending, run_poll_serial>>
         ELSE IF fail
         THEN /\ phase' = "exited"
              /\ boot' = [boot EXCEPT !.loaded = TRUE, !.uid_map = m.uid_map,
                                      !.exit = 1]
              /\ serial' = s1
              /\ ev' = [NoEv EXCEPT !.op = "main", !.raised = TRUE,
                                    !.opened = IF ok THEN "ok" ELSE "fail"]
              /\ UNCHANGED <<pending, run_poll_serial>>
         ELSE /\ phase' = "loop"
              /\ boot' = [boot EXCEPT !.loaded = TRUE, !.uid_map = m.uid_map]
              /\ serial' = s1
              /\ pending' = {[id |-> 1, fn |-> "watch_player", ms |-> WATCH_MS],
                             [id |-> 2, fn |-> "poll_serial", ms |-> POLL_MS]}
              /\ run_poll_serial' = 2
              /\ ev' = [NoEv EXCEPT !.op = "main",
                                    !.opened = IF ok THEN "ok" ELSE "fail"]
    /\ UNCHANGED <<media, last_cmd, run_reconnect, last_ret>>

\* python main_backup.py: RFIDVideoPlayer.__init__.  Every exception of the
\* start (load_config, which raises for an empty map too; fail: Tk or VLC cannot
\* be set up) is caught in line 86 and answered with safe_shutdown(), which ends
\* in sys.exit(0); connect_serial comes last before the loop
main_backup ==
    /\ phase = "start" /\ boot.entry = "main_backup.py"
    /\ \E ok, fail \in BOOLEAN :
       \E m \in {load_config_backup(boot.table, boot.files)} :
         IF m.raised \/ fail
         THEN /\ phase' = "exited"
              /\ boot' = [boot EXCEPT !.loaded = ~m.raised,
                                      !.uid_map = IF m.raised THEN {} ELSE m.uid_map,
                                      !.exit = 0]
              /\ ev' = [NoEv EXCEPT !.op = "main_backup", !.raised = TRUE,
                                    !.steps = <<"player", "serial", "destroy">>]
              /\ UNCHANGED <<serial, pending, run_poll_serial>>
         ELSE /\ phase' = "loop"
              /\ boot' = [boot EXCEPT !.loaded = TRUE, !.uid_map = m.uid_map]
              /\ serial' = open(serial, ok)
              /\ pending' = {[id |-> 1, fn |-> "watch_player", ms |-> WATCH_MS],
                             [id |-> 2, fn |-> "poll_serial", ms |-> POLL_MS]}
              /\ run_poll_serial' = 2
              /\ ev' = [NoEv EXCEPT !.op = "main_backup",
                                    !.opened = IF ok THEN "ok" ELSE "fail"]
    /\ UNCHANGED <<media, last_cmd, run_reconnect, last_ret>>

\* before __main__ runs, for every entry point, platform and configuration
StartInit ==
    /\ phase = "start"
    /\ boot \in [entry : Entries, platform : Platforms, table : Tables,
                  files : Files, loaded : {FALSE}, uid_map : {{}}, exit : {0}]
    /\ serial = [ser |-> None, backoff_time |-> min_backoff, error_count |-> 0]
    /\ media = [current_uid |-> "", media_cache |-> {},
                player |-> [NewPlayer EXCEPT !.on_end = TRUE], surface |-> "home"]
    /\ last_cmd = None
    /\ run_poll_serial = NoJob
    /\ run_reconnect = NoJob
    /\ pending = {}
    /\ ev = NoEv
    /\ last_ret = 0

\* the start, and the loop as far as its end by Escape or window close
StartNext ==
    \/ main
    \/ main_backup
    \/ safe_shutdown

StartSpec == StartInit /\ [][StartNext]_vars

\* ------------------------------------------- the channel under any caller
other_vars == <<phase, boot, media, last_cmd, run_poll_serial, run_reconnect, pending>>

call_open ==
    /\ \E ok \in BOOLEAN :
         /\ serial' = open(serial, ok)
         /\ ev' = [NoEv EXCEPT !.op = "open", !.opened = IF ok THEN "ok" ELSE "fail",
                               !.had = is_opened(serial), !.b0 = serial.backoff_time]
         /\ last_ret' = IF ok THEN 0 ELSE last_ret
    /\ UNCHANGED other_vars

call_close ==
    /\ serial' = close(serial)
    /\ ev' = [NoEv EXCEPT !.op = "close", !.had = is_opened(serial)]
    /\ UNCHANGED <<last_ret, other_vars>>

\* on a closed channel self.__ser is None and in_waiting raises AttributeError,
\* which receive_datas does not catch
call_receive_datas ==
    /\ IF is_opened(serial)
       THEN \E buf \in RawBuffers, err \in BOOLEAN :
              LET r == receive_datas(serial, buf, err)
              IN  /\ serial' = r.serial
                  /\ ev' = [NoEv EXCEPT !.op = "receive_datas", !.err = err,
                                        !.had = TRUE, !.recv = TRUE,
                                        !.buf = buf, !.lines = r.lines,
                                        !.last = LastOrNone(r.lines),
                                        !.skipped = Len(r.lines) > 1]
       ELSE /\ serial' = serial
            /\ ev' = [NoEv EXCEPT !.op = "receive_datas", !.recv = TRUE, !.raised = TRUE]
    /\ UNCHANGED <<last_ret, other_vars>>

call_get_time_polling ==
    /\ serial' = get_time_polling(serial)
    /\ ev' = [NoEv EXCEPT !.op = "get_time_polling", !.ret = serial'.backoff_time]
    /\ last_ret' = serial'.backoff_time
    /\ UNCHANGED other_vars

ChannelNext ==
    \/ call_open
    \/ call_close
    \/ call_receive_datas
    \/ call_get_time_polling

ChannelSpec == Init /\ [][ChannelNext]_vars

\* ------------------------------------------------------------------- claims
PollPending == Jobs("poll_serial") # {}
ReconnectPending == Jobs("reconnect_serial") # {}
Disconnected == phase = "loop" /\ ~is_opened(serial)

\* C1: a poll callback and a reconnect callback are never pending on the
\* scheduler at the same time
C1_NeverBothPending == ~(PollPending /\ ReconnectPending)

\* the reconnect chain is running after a failed attempt
C1_Witness == ReconnectPending /\ ev.op = "reconnect" /\ ev.opened = "fail"

\* C2: between two callbacks of the running loop exactly one poll or reconnect
\* callback is pending, whatever the callback that ran met
C2_ExactlyOnePending ==
    phase = "loop" =>
        Cardinality(Jobs("poll_serial") \cup Jobs("reconnect_serial")) = 1

\* a poll met an I/O error, which closed the channel, and was still rescheduled
C2_Witness == ev.op = "poll" /\ ev.err /\ ~is_opened(serial) /\ PollPending

\* C3 as stated: under fair firing, no poll is pending while the channel is
\* disconnected, open() is attempted again and again, and a successful open()
\* ends the reconnect chain and resumes polling
C3_AsStated ==
    /\ [](Disconnected => ~PollPending)
    /\ <>[]Disconnected => []<><<\E job \in pending : reconnect_serial(job)>>_vars
    /\ [](ev.op = "reconnect" /\ ev.opened = "ok" => PollPending /\ ~ReconnectPending)
    /\ (ev.op = "reconnect" /\ ev.opened = "ok") ~> (phase = "exited" \/ ev.op = "poll")

\* C3 amended: under fair firing, while the channel stays disconnected open() is
\* attempted again and again; a poll pending on a disconnected channel (after a
\* failed first open() or a read error) reads nothing when it fires and hands off
\* to the reconnect callback, and no poll is pending while a reconnect callback
\* is; a successful open() ends the reconnect chain and schedules a poll, which
\* eventually runs
C3_Recovery ==
    /\ [](ReconnectPending => Disconnected /\ ~PollPending)
    /\ [][Disconnected /\ ev'.op = "poll"
            => ev'.cmd = None /\ ev'.ret # 0 /\ ReconnectPending' /\ ~PollPending']_vars
    /\ <>[]Disconnected => []<><<\E job \in pending : reconnect_serial(job)>>_vars
    /\ [](ev.op = "reconnect" /\ ev.opened = "ok" => PollPending /\ ~ReconnectPending)
    /\ (ev.op = "reconnect" /\ ev.opened = "ok") ~> (phase = "exited" \/ ev.op = "poll")

\* open() succeeded after the backoff had grown to its maximum, and a poll is scheduled
C3_Witness ==
    /\ ev.op = "reconnect" /\ ev.opened = "ok" /\ ev.b0 = max_backoff
    /\ PollPending /\ is_opened(serial)

\* C4: every value get_time_polling returns lies between the configured minimum
\* and the configured maximum
C4_DelayInRange == ev.ret # 0 => min_backoff <= ev.ret /\ ev.ret <= max_backoff

\* get_time_polling is called with the delay already at the maximum
C4_Witness ==
    ev.op = "get_time_polling" /\ ev.ret = max_backoff /\ serial.error_count = MaxErrorCount

\* C5: a value get_time_polling returns is not smaller than the one it returned
\* before, when no open() succeeded in between
C5_NonDecreasing == [][ev'.ret # 0 /\ last_ret # 0 => ev'.ret >= last_ret]_vars

\* a second failure in a row: the delay has doubled twice
C5_Witness == ev.op = "get_time_polling" /\ ev.ret = 4 * min_backoff /\ last_ret = ev.ret

\* C6: a successful open() leaves the channel connected with the delay at the
\* minimum; a failed open() leaves the delay as it was
C6_OpenResetsBackoff ==
    [][/\ ev'.op = "open" /\ ev'.opened = "ok"
            => is_opened(serial') /\ serial'.backoff_time = min_backoff
       /\ ev'.op = "open" /\ ev'.opened = "fail"
            => ~is_opened(serial') /\ serial'.backoff_time = serial.backoff_time]_vars

\* open() succeeded when the delay had grown to the maximum
C6_Witness ==
    /\ ev.op = "open" /\ ev.opened = "ok" /\ ev.b0 = max_backoff
    /\ serial.backoff_time = min_backoff

\* the two states of the playback engine
Idle(m) == m.current_uid = "" /\ m.surface = "home"
Playing(m, x) ==
    /\ m.current_uid = x /\ m.surface = "video"
    /\ m.player.state = "Playing" /\ m.player.media = x
Dispatched == ev.op = "poll" /\ ev.cmd # None

\* C7 as stated: a command equal to the one dispatched before it causes no
\* playback action, and a known identifier dispatched from Idle makes the engine
\* Playing(x)
C7_AsStated ==
    [][ev'.op = "poll" /\ ev'.cmd # None =>
        /\ ev'.cmd = last_cmd =>
              media' = media /\ Jobs("restart_video")' \subseteq Jobs("restart_video")
        /\ ev'.cmd \in uid_map /\ Idle(media) => Playing(media', ev'.cmd)]_vars

\* C7 amended: a command equal to the one dispatched before it leaves the engine
\* as it was and schedules no restart; a known identifier x other than the
\* command dispatched before it, dispatched from Idle, makes the engine
\* Playing(x) when the media is prepared and started without error, and leaves
\* it Idle when that fails
C7_Dedup ==
    [][ev'.op = "poll" /\ ev'.cmd # None =>
        /\ ev'.cmd = last_cmd =>
              /\ ev'.dup /\ last_cmd' = last_cmd
              /\ media' = media /\ Jobs("restart_video")' \subseteq Jobs("restart_video")
        /\ ev'.cmd \in uid_map /\ ev'.cmd # last_cmd /\ Idle(media) =>
              /\ ev'.pf # NotRun /\ last_cmd' = ev'.cmd
              /\ ev'.pf = "none" => Playing(media', ev'.cmd)
              /\ ev'.pf # "none" => Idle(media')]_vars

\* a known identifier was dispatched again while it is the active one, after its
\* video had reached the end: the dispatch started nothing
C7_Witness ==
    /\ Dispatched /\ ev.dup /\ ev.cmd \in uid_map
    /\ media.current_uid = ev.cmd /\ media.player.state = "Ended"

\* C8 as stated: "removed" dispatched while an identifier is active makes the
\* engine Idle with the player stopped; dispatched while Idle it changes nothing
\* in the engine
C8_AsStated ==
    [][ev'.op = "poll" /\ ev'.cmd = REMOVED =>
        /\ media.current_uid # "" =>
              Idle(media') /\ media'.player.state = "Stopped"
        /\ media.current_uid = "" => media' = media]_vars

\* C8 amended: "removed" dispatched while an identifier is active makes the
\* engine Idle (no active identifier, home image shown); the player is stopped
\* unless stop() itself fails, and then it is left as it was; dispatched while
\* Idle it changes nothing in the engine
C8_RemovedGoesIdle ==
    [][ev'.op = "poll" /\ ev'.cmd = REMOVED =>
        /\ media.current_uid # "" =>
              /\ ~ev'.dup /\ ev'.sf # NotRun /\ Idle(media')
              /\ ev'.sf # "stop" => media'.player.state = "Stopped"
              /\ ev'.sf = "none" => media'.player.media = None
              /\ ev'.sf = "stop" => media'.player = media.player
        /\ media.current_uid = "" => media' = media /\ ev'.sf = NotRun]_vars

\* "removed" has stopped the player and taken its media away
C8_Witness ==
    /\ Dispatched /\ ev.cmd = REMOVED /\ ev.sf = "none"
    /\ Idle(media) /\ media.player.state = "Stopped" /\ media.player.media = None

\* C9 as stated: an unknown command leaves the engine as it was, logs a warning
\* and does not raise
C9_AsStated ==
    [][ev'.op = "poll" /\ ev'.cmd \notin uid_map \cup {REMOVED, None} =>
        /\ media' = media /\ Jobs("restart_video")' \subseteq Jobs("restart_video")
        /\ ~ev'.raised
        /\ ev'.warned]_vars

\* C9 amended: an unknown command leaves the engine as it was and does not
\* raise; it logs a warning unless it equals the command dispatched before it,
\* which is dropped without a warning
C9_UnknownIgnored ==
    [][ev'.op = "poll" /\ ev'.cmd \notin uid_map \cup {REMOVED, None} =>
        /\ media' = media /\ Jobs("restart_video")' \subseteq Jobs("restart_video")
        /\ ~ev'.raised
        /\ ev'.warned <=> ev'.cmd # last_cmd
        /\ last_cmd' = ev'.cmd]_vars

\* an unknown command was dispatched while a video is playing, and logged
C9_Witness ==
    /\ Dispatched /\ ev.cmd \notin uid_map \cup {REMOVED} /\ ev.warned
    /\ \E x \in uid_map : Playing(media, x)

\* C10: a poll on a connected channel dispatches the last line of a non-empty
\* batch and nothing else: the engine and the last-dispatched command end as
\* __process_cmd leaves them for that line alone, and no earlier line becomes
\* the active identifier, a cached media or the last-dispatched command; an empty
\* batch dispatches nothing
C10_LastLineOnly ==
    [][ev'.op = "poll" /\ is_opened(serial) =>
        /\ ev'.cmd = ev'.last
        /\ ev'.last = None => media' = media /\ last_cmd' = last_cmd
        /\ ev'.last # None =>
              /\ last_cmd' = ev'.last
              /\ media'.current_uid \in {media.current_uid, "", ev'.last}
              /\ media'.media_cache \subseteq media.media_cache \cup {ev'.last}
              /\ media'.player.media \in {media.player.media, None, ev'.last}
              /\ LET d == process_cmd(last_cmd, media, ev'.last, ev'.pf, ev'.sf)
                 IN  media' = d.media /\ last_cmd' = d.last_cmd]_vars

\* a batch of two lines came in: the identifier in its last line is playing
\* and the line before it left no trace
C10_Witness ==
    /\ Dispatched /\ ev.skipped /\ ev.cmd = "U2" /\ ev.last = "U2"
    /\ Playing(media, "U2") /\ media.media_cache = {"U2"} /\ last_cmd = "U2"

\* C11: when the player reaches the end of its media while an identifier is
\* active, the identifier stays active, the video canvas stays shown and a
\* restart of the video is handed to the loop, also on a player the watchdog
\* has put in place of the first one
C11_LoopsOnEnd ==
    [][ev'.op = "end" /\ media.current_uid # "" =>
        /\ media'.current_uid = media.current_uid
        /\ media'.surface = media.surface
        /\ Jobs("restart_video")' # {}]_vars

\* C12: a watchdog tick that finds the player in Error or Stopped releases it,
\* creates and attaches a new one, and keeps the active identifier: the new
\* player plays that identifier's media, or nothing when none is active
C12_WatchdogRebuilds ==
    [][/\ ev'.op = "watch" /\ ev'.wf # "get_state"
       /\ media.player.state \in {"Error", "Stopped"}
       => /\ ev'.wf = "none" /\ ev'.rel = "none"
          /\ media'.current_uid = media.current_uid
          /\ media.current_uid # "" =>
                /\ media'.player.state = "Playing"
                /\ media'.player.media = media.current_uid
          /\ media.current_uid = "" =>
                Idle(media') /\ media'.player.state # "Playing"]_vars

\* C13: while the loop runs a watchdog callback is pending, whatever the
\* watchdog callbacks before it met
C13_WatchdogAlwaysPending == phase = "loop" => Jobs("watch_player") # {}

C15_SameIdNoOp ==
    [][ev'.op = "poll" /\ ev'.cmd \in uid_map /\ ev'.cmd = media.current_uid =>
        /\ media' = media
        /\ Jobs("restart_video")' \subseteq Jobs("restart_video")
        /\ ev'.pf = NotRun /\ ev'.sf = NotRun]_vars

\* the active identifier came again after another command, when its video had
\* reached the end: play_video was called and did not start the player
C15_Witness ==
    /\ Dispatched /\ ~ev.dup /\ ev.cmd \in uid_map /\ ev.pf = NotRun
    /\ media.current_uid = ev.cmd /\ media.player.state = "Ended"

\* C16: no poll, reconnect, watchdog or restart callback ends with an exception
C16_NoUncaughtError ==
    ev.op \in {"poll", "reconnect", "watch", "restart"} => ~ev.raised

\* C17: a failed open() does not raise and leaves the channel disconnected,
\* also when the channel was connected before the call
C17_OpenNeverRaises ==
    [][ev'.op = "open" /\ ev'.opened = "fail" =>
        ~ev'.raised /\ serial'.ser = None /\ ~is_opened(serial')]_vars

\* open() failed on a channel that was connected
C17_Witness ==
    ev.op = "open" /\ ev.opened = "fail" /\ ev.had /\ ~is_opened(serial)

\* C18: receive_datas meeting an I/O error does not raise, returns the lines it
\* read before the error (the non-blank ones, stripped, in the order read) and
\* leaves the channel disconnected
C18_ReceiveErrorKeepsLines ==
    [][ev'.op = "receive_datas" /\ ev'.had /\ ev'.err =>
        /\ ~ev'.raised
        /\ ~is_opened(serial')
        /\ LET kept == {i \in 1..Len(ev'.buf) : ev'.buf[i].text # ""}
               pos(i) == Cardinality({j \in kept : j <= i})
           IN  /\ Len(ev'.lines) = Cardinality(kept)
               /\ \A i \in kept : ev'.lines[pos(i)] = ev'.buf[i].text]_vars

\* the error came after two lines had been read
C18_Witness ==
    /\ ev.op = "receive_datas" /\ ev.err /\ ~is_opened(serial)
    /\ Len(ev.buf) = 2 /\ Len(ev.lines) = 2 /\ ev.lines[1] # ev.lines[2]

\* C19: close() leaves the channel disconnected and the backoff state as it
\* was; on a disconnected channel it changes nothing; it does not raise
C19_CloseIdempotent ==
    [][ev'.op = "close" =>
        /\ ~ev'.raised
        /\ ~is_opened(serial')
        /\ serial'.backoff_time = serial.backoff_time
        /\ serial'.error_count = serial.error_count
        /\ ~is_opened(serial) => serial' = serial
        /\ close(serial') = serial']_vars

\* a connected channel whose delay had grown to the maximum was closed
C19_Witness ==
    /\ ev.op = "close" /\ ev.had /\ ~is_opened(serial)
    /\ serial.backoff_time = max_backoff

\* C20: what runs on the VLC thread at the end of a media reads no field of
\* the engine
C20_EndSignalConfined == ev.thread = "vlc" => ev.reads = {}

\* C21: the media cache only grows, holds keys of the identifier map only, and
\* a watchdog tick leaves it as it is
C21_CacheAppendOnly ==
    /\ [](media.media_cache \subseteq uid_map)
    /\ [][media.media_cache \subseteq media'.media_cache]_vars
    /\ [][ev'.op \in {"watch", "restart", "end", "fault", "shutdown"} =>
            media'.media_cache = media.media_cache]_vars
    /\ [][ev'.op = "poll" =>
            media'.media_cache \in {media.media_cache, media.media_cache \cup {ev'.cmd}}]_vars

\* the watchdog has replaced the player and restarted the video when the cache
\* held the media of both identifiers
C21_Witness ==
    /\ ev.op = "watch" /\ ev.wf = "none" /\ ev.rel # NotRun /\ ev.pf = "none"
    /\ media.media_cache = uid_map /\ media.player.state = "Playing"

\* the dedup memory and the engine agree
Agree ==
    /\ last_cmd \in uid_map => media.current_uid = last_cmd
    /\ last_cmd = REMOVED => Idle(media)

\* C25 as stated: whenever the last command dispatched is an identifier it is
\* the active identifier, and whenever it is "removed" the engine is Idle
C25_AsStated == Agree

\* C25 amended: when the last command dispatched is an identifier x, the active
\* identifier is x or there is none, and there is none only from a dispatch of
\* x in which play_video failed; when it is "removed" the engine is Idle
C25_DedupAgrees ==
    /\ [](last_cmd \in uid_map => media.current_uid \in {last_cmd, ""})
    /\ [](last_cmd = REMOVED => Idle(media))
    /\ [][Agree /\ ~Agree' =>
            /\ ev'.op = "poll" /\ ev'.cmd = last_cmd' /\ ev'.cmd \in uid_map
            /\ ev'.pf \notin {"none", NotRun}
            /\ Idle(media')]_vars
    /\ [][~Agree /\ ev'.op # "poll" => ~Agree']_vars

\* the identifier whose video failed to start came again and was dropped as a
\* repetition: the engine is Idle with that identifier as the last command
C25_Witness ==
    /\ Dispatched /\ ev.dup /\ ev.cmd \in uid_map
    /\ last_cmd = ev.cmd /\ Idle(media)

\* C26: a restart callback acts on the identifier that is active when it runs:
\* with none active it changes nothing in the engine and starts no playback;
\* with one active it keeps that identifier and the canvas, and the player
\* holds no other media than before or that identifier's
C26_RestartFollowsActive ==
    [][ev'.op = "restart" =>
        /\ media'.current_uid = media.current_uid
        /\ media'.surface = media.surface
        /\ media.current_uid = "" => media' = media /\ ev'.pf = NotRun
        /\ media.current_uid # "" =>
              /\ media'.player.media \in {media.player.media, media.current_uid}
              /\ ev'.pf = "none" => Playing(media', media.current_uid)
              /\ media'.player.state \in {media.player.state, "Playing"}]_vars

\* the restart handed over at the end of a video ran after "removed" had been
\* dispatched: the player is still stopped and the home image shown
C26_Witness ==
    /\ ev.op = "restart" /\ ev.pf = NotRun /\ last_cmd = REMOVED
    /\ Idle(media) /\ media.player.state = "Stopped"

\* C27: while the loop runs the video canvas is shown exactly when an
\* identifier is active, and the home image exactly when none is
C27_SurfaceMatches ==
    phase = "loop" =>
        /\ media.surface \in {"video", "home"}
        /\ media.surface = "video" <=> media.current_uid # ""
        /\ media.surface = "home" <=> media.current_uid = ""

\* the watchdog has replaced the player while an identifier is active and its
\* restart failed: the canvas is still the surface shown
C27_Witness ==
    /\ ev.op = "watch" /\ ev.wf = "none" /\ ev.pf \notin {"none", NotRun}
    /\ media.current_uid # "" /\ media.surface = "video"

\* C28: the controller calls open() only on a disconnected channel and
\* receive_datas only on a connected one
C28_CallsMatchConnection ==
    [][/\ ev'.op = "reconnect" => ~is_opened(serial) /\ ~ev'.had
       /\ ev'.op = "poll" /\ ev'.recv => is_opened(serial) /\ ev'.had
       /\ ev'.op = "poll" /\ ~ev'.recv => ~is_opened(serial)
       /\ ev'.op \in {"poll", "reconnect"} => ~ev'.raised]_vars

\* the reconnect callback opened the channel, which was disconnected
C28_Witness ==
    /\ ev.op = "reconnect" /\ ev.opened = "ok" /\ ~ev.had
    /\ is_opened(serial) /\ serial.backoff_time = min_backoff

\* C29: a poll in which receive_datas meets an I/O error still dispatches the
\* last line read and schedules a poll, POLL_MS later; a poll that finds the
\* channel disconnected reads and dispatches nothing and schedules the
\* reconnect instead of itself; under fair firing that poll comes
C29_ErrorThenHandoff ==
    /\ [][ev'.op = "poll" /\ ev'.err =>
            /\ ev'.cmd = ev'.last
            /\ ~is_opened(serial')
            /\ ~ReconnectPending'
            /\ \E job \in pending' : job.fn = "poll_serial" /\ job.ms = POLL_MS]_vars
    /\ [][ev'.op = "poll" /\ ~is_opened(serial) =>
            /\ ~ev'.recv /\ ev'.cmd = None
            /\ media' = media /\ last_cmd' = last_cmd
            /\ ~PollPending'
            /\ \E job \in pending' :
                  job.fn = "reconnect_serial" /\ job.ms = ev'.ret * 1000]_vars
    /\ (ev.op = "poll" /\ ev.err) ~> (phase = "exited" \/ ReconnectPending)

\* the error came after the identifier U1 had been read: its video plays, the
\* channel is closed and a poll is pending
C29_Witness ==
    /\ ev.op = "poll" /\ ev.err /\ ev.cmd = "U1" /\ Playing(media, "U1")
    /\ ~is_opened(serial) /\ PollPending

C22_ShutdownSteps ==
    (ev.op = "shutdown" \/ ev.steps # <<>>) =>
        /\ ev.steps = <<"player", "serial", "destroy">>
        /\ ~is_opened(serial)
        /\ pending = {}
        /\ phase = "exited" /\ boot.exit = 0
        /\ ev.rel = "none" => media.player.state = "Released"

\* stop() failed in a shutdown with the channel connected: the channel was
\* closed all the same
C22_Witness ==
    /\ ev.op = "shutdown" /\ ev.rel = "stop" /\ ev.had
    /\ ~is_opened(serial) /\ phase = "exited"

\* C23: the exit code is zero when the process ends by Escape or window close,
\* and not zero when it ends on a failure of the start
C23_ExitCodes ==
    phase = "exited" =>
        /\ ev.op = "shutdown" => boot.exit = 0
        /\ ev.op # "shutdown" => boot.exit # 0

\* C24: the identifier map loaded holds exactly the identifiers of the table
\* whose file exists, and with an empty map the loop is not entered and no
\* poll is scheduled
C24_EmptyMapIsFatal ==
    boot.loaded =>
        /\ boot.uid_map = boot.table.keys \cap boot.files
        /\ boot.uid_map = {} => phase # "loop" /\ Jobs("poll_serial") = {}

====
